---------------------------- MODULE Spec2Model ----------------------------
(***************************************************************************)
(* A model of the prehash crate: the process-wide hash function (lib.rs),  *)
(* the hash carrier WithHash and its dynamically sized constructors        *)
(* (with_hash.rs), the reference-counted pointer Rc (rc.rs) and the map    *)
(* PreHashMap (map.rs).                                                    *)
(*                                                                         *)
(* Three groups of state are modelled, each with its own specification:    *)
(*   SpecCarrier  construction of carriers, byte by byte in the allocated  *)
(*                block, and the layout arithmetic behind it;              *)
(*   SpecRc       one Rc block and the clone / drop of its handles;        *)
(*   SpecMap      one PreHashMap, its inserts and lookups;                 *)
(*   SpecBench    the scenario of benches/hashmap.rs.                      *)
(***************************************************************************)
EXTENDS Integers, Sequences, FiniteSets, TLC

VARIABLES
    seed,        \* the keys of SHARED_RANDOM (lib.rs:22), fixed for the process
    carrier,     \* the carrier / handle built by the last constructor call
    lastHash,    \* what the last PreHash::precomputed_hash call returned, and through which wrapper
    rc,          \* the Rc block: refcount, live handles, allocation state, ghost counters
    map,         \* the PreHashMap: the table of the engine, its key type, ghost history
    ret,         \* the last map operation and what it returned
    bench        \* position of bench_prehash_get: the loop counter and the phase

vars == <<seed, carrier, lastHash, rc, map, ret, bench>>

---------------------------------------------------------------------------
(* Bounds of the model *)

\* the hash is a u64 in the program; the model keeps HashBits bits of it
HashBits == 3
\* RandomState seeds are drawn from 0..MaxSeed
MaxSeed == 1
\* input sequences and texts have at most MaxLen elements
MaxLen == 2
\* element values are drawn from 0..MaxElem
MaxElem == 1
\* isize::MAX of the layout arithmetic is 2^(AddrBits-1) - 1 in the model
AddrBits == 8
\* the layout arithmetic is exercised for lengths 0..MaxLayoutLen
MaxLayoutLen == 8
\* usize::MAX of the reference counter is 2^CountBits - 1 in the model
CountBits == 2

(* Program constants *)

\* size and alignment of the `hash: u64` field
U64Size == 8
\* size and alignment of the `refcount: Cell<usize>` field
UsizeSize == 8

HashMod == 2 ^ HashBits
isize_MAX == 2 ^ (AddrBits - 1) - 1
usize_MAX == 2 ^ CountBits - 1

None == [some |-> FALSE]
Some(v) == [some |-> TRUE, v |-> v]

Max(a, b) == IF a >= b THEN a ELSE b

---------------------------------------------------------------------------
(* lib.rs: the hash function.  The keyed hasher is a function of the seed   *)
(* and of the byte stream that the value's Hash implementation feeds it;    *)
(* the stream is what distinguishes the hashed types.                       *)

\* the little-endian bytes of v in a field of n bytes (the values of the model
\* fit in four bytes, the higher bytes are 0)
LEBytes(v, n) == [i \in 1..n |-> IF i <= 4 THEN (v \div (256 ^ (i - 1))) % 256 ELSE 0]

\* <str as Hash>::hash, also reached from String: the bytes, then 0xff
StrStream(bytes) == bytes \o <<255>>

\* the bytes of the elements of s, each of elemSize bytes, in order
ElementBytes(elemSize, s) ==
    [j \in 1..(Len(s) * elemSize) |->
        LEBytes(s[((j - 1) \div elemSize) + 1], elemSize)[((j - 1) % elemSize) + 1]]

\* <[T] as Hash>::hash, also reached from Vec<T>: the length as a usize,
\* then every element (an integer element writes its little-endian bytes)
SliceStream(elemSize, s) == LEBytes(Len(s), UsizeSize) \o ElementBytes(elemSize, s)

\* value.hash(&mut hasher): the stream of a value of hashed type ty
HashStream(ty, elemSize, v) ==
    IF ty \in {"str", "String"} THEN StrStream(v) ELSE SliceStream(elemSize, v)

\* Hasher::write: from the state h, write bytes[lo..hi] in order, one mixing
\* step a byte.  The range is split in two, and the state after the first half
\* is computed before the second half starts, to keep the evaluation shallow.
RECURSIVE HasherWrite(_, _, _, _)
HasherWrite(h, bytes, lo, hi) ==
    IF lo > hi THEN h
    ELSE IF lo = hi THEN (h * 5 + bytes[lo] + 1) % HashMod
    ELSE LET mid == (lo + hi) \div 2
             half == HasherWrite(h, bytes, lo, mid)
         IN  IF half \in 0..(HashMod - 1)
             THEN HasherWrite(half, bytes, mid + 1, hi)
             ELSE half

\* build_hasher() from the seed, write every byte of the stream, finish()
Hasher(h, bytes) == HasherWrite(h, bytes, 1, Len(bytes))

\* pub fn hash<T: ?Sized + Hash>(value: &T) -> u64
hash(s, ty, elemSize, v) == Hasher(s, HashStream(ty, elemSize, v))

---------------------------------------------------------------------------
(* std::alloc::Layout as used by slice_layout and                          *)
(* rcbox_layout_and_value_offset                                           *)

LayoutErr == [size |-> -1, align |-> -1]

RoundUp(n, align) == ((n + align - 1) \div align) * align

\* Layout::from_size_align: the size, rounded up to align, must not exceed isize::MAX
Layout_from_size_align(size, align) ==
    IF size > isize_MAX - (align - 1) THEN LayoutErr
    ELSE [size |-> size, align |-> align]

\* Layout::new::<u64>()
Layout_u64 == [size |-> U64Size, align |-> U64Size]

\* Layout::new::<Cell<usize>>()
Layout_usize == [size |-> UsizeSize, align |-> UsizeSize]

\* Layout::array::<T>(len)
Layout_array(elem, len) ==
    IF elem.size # 0 /\ len > (isize_MAX - (elem.align - 1)) \div elem.size
    THEN LayoutErr
    ELSE [size |-> elem.size * len, align |-> elem.align]

\* Layout::extend(self, next) -> (layout, offset of next)
Layout_extend(self, next) ==
    LET new_align == Max(self.align, next.align)
        offset == RoundUp(self.size, next.align)
        new_size == offset + next.size
    IN  [layout |-> Layout_from_size_align(new_size, new_align), offset |-> offset]

\* Layout::pad_to_align
pad_to_align(l) == [size |-> RoundUp(l.size, l.align), align |-> l.align]

---------------------------------------------------------------------------
(* with_hash.rs: the layout of WithHash<[T]>, at construction and at access *)

\* an element type T is known to the model by its size and alignment
U8 == [size |-> 1, align |-> 1]

\* slice_layout without the final pad_to_align: the size stops at the last element
slice_layout_unpadded(elem, len) ==
    LET value_layout == Layout_array(elem, len)
        ext == Layout_extend(Layout_u64, value_layout)
    IN  IF value_layout = LayoutErr \/ ext.layout = LayoutErr
        THEN [ok |-> FALSE, layout |-> LayoutErr, offset |-> 0]
        ELSE [ok |-> TRUE, layout |-> ext.layout, offset |-> ext.offset]

\* fn slice_layout(len: usize) -> (Layout, usize)
slice_layout(elem, len) ==
    LET hash_layout == Layout_u64
        value_layout == Layout_array(elem, len)
        ext == Layout_extend(hash_layout, value_layout)
    IN  IF value_layout = LayoutErr \/ ext.layout = LayoutErr
        THEN [ok |-> FALSE, layout |-> LayoutErr, offset |-> 0]
        ELSE [ok |-> TRUE, layout |-> pad_to_align(ext.layout), offset |-> ext.offset]

\* WithHash::slice_layout_and_value_offset(input_slice), called by rc.rs:115:
\* the carrier's own layout and the offset of its payload
slice_layout_and_value_offset(elem, input_slice) == slice_layout(elem, Len(input_slice))

\* #[repr(C)] struct WithHash<T: ?Sized> { hash: u64, value: T } with T = [E]:
\* the alignment, the offset of `value` and the size of a value with n elements,
\* as the compiler gives them to every access through a wide pointer
WithHash_align(elem) == Max(U64Size, elem.align)

WithHash_value_offset(elem) == RoundUp(U64Size, elem.align)

WithHash_size_of_val(elem, n) ==
    RoundUp(WithHash_value_offset(elem) + n * elem.size, WithHash_align(elem))

\* #[repr(C)] struct RcBox<T: ?Sized> { refcount: Cell<usize>, value: T }
\* with T = WithHash<[E]>
RcBox_align(elem) == Max(UsizeSize, WithHash_align(elem))

RcBox_value_offset(elem) == RoundUp(UsizeSize, WithHash_align(elem))

RcBox_size_of_val(elem, n) ==
    RoundUp(RcBox_value_offset(elem) + WithHash_size_of_val(elem, n), RcBox_align(elem))

\* fn rcbox_layout_and_value_offset(value_layout: Layout) -> (Layout, usize)
rcbox_layout_and_value_offset(value_layout) ==
    LET ext == Layout_extend(Layout_usize, value_layout)
    IN  IF ext.layout = LayoutErr
        THEN [ok |-> FALSE, layout |-> LayoutErr, offset |-> 0]
        ELSE [ok |-> TRUE, layout |-> pad_to_align(ext.layout), offset |-> ext.offset]

---------------------------------------------------------------------------
(* The allocated block, byte by byte.  A byte is uninitialised or holds     *)
(* byte k of an object of n bytes with value v.                             *)

Uninit == [v |-> -1, k |-> -1, n |-> -1]

Garbage == -1

NoMem == [cells |-> <<>>, oob |-> FALSE, misaligned |-> FALSE]

\* crate::alloc::alloc(layout): a fresh block of layout.size uninitialised bytes
alloc(layout) ==
    [cells |-> [i \in 1..layout.size |-> Uninit], oob |-> FALSE, misaligned |-> FALSE]

\* ptr.add(off).cast::<T>().write(v) for a T of `size` bytes aligned to `align`
Write(m, off, size, align, v) ==
    [cells |-> [i \in 1..Len(m.cells) |->
                   IF off < i /\ i <= off + size
                   THEN [v |-> v, k |-> i - 1 - off, n |-> size]
                   ELSE m.cells[i]],
     oob |-> m.oob \/ off + size > Len(m.cells),
     misaligned |-> m.misaligned \/ off % align # 0]

\* dst.copy_from_nonoverlapping(src, count)
RECURSIVE CopyFrom(_, _, _, _, _)
CopyFrom(m, off, elem, src, i) ==
    IF i > Len(src) THEN m
    ELSE CopyFrom(Write(m, off + (i - 1) * elem.size, elem.size, elem.align, src[i]),
                  off, elem, src, i + 1)

\* reading a T of `size` bytes at off: the value written there, if those bytes
\* still hold exactly that object; a zero-sized T has one value
Read(m, off, size) ==
    IF size = 0 THEN 0
    ELSE IF off + size > Len(m.cells) THEN Garbage
    ELSE IF \A i \in 1..size :
                /\ m.cells[off + i].k = i - 1
                /\ m.cells[off + i].n = size
                /\ m.cells[off + i].v = m.cells[off + 1].v
         THEN m.cells[off + 1].v
         ELSE Garbage

\* initialize with the payload assumed to follow the hash directly, whatever
\* value_offset says
initialize_packed(m, struct_ptr, value_offset, elem, input_slice) ==
    LET m1 == Write(m, struct_ptr, U64Size, U64Size, hash(seed, "slice", elem.size, input_slice))
    IN  CopyFrom(m1, struct_ptr + U64Size, elem, input_slice, 1)

\* unsafe fn initialize(struct_ptr: *mut u8, value_offset: usize, input_slice: &[T])
initialize(m, struct_ptr, value_offset, elem, input_slice) ==
    LET hash_ptr == struct_ptr
        m1 == Write(m, hash_ptr, U64Size, U64Size, hash(seed, "slice", elem.size, input_slice))
        value_ptr == struct_ptr + value_offset
    IN  CopyFrom(m1, value_ptr, elem, input_slice, 1)

---------------------------------------------------------------------------
(* The constructors.  A carrier value records the handle (its kind and its  *)
(* length metadata) and the block behind it.                                *)

NoCarrier ==
    [kind |-> "none", hashed |-> "none", elem |-> U8, input |-> <<>>, ok |-> TRUE,
     layout |-> LayoutErr, value_offset |-> 0, rcvalue_offset |-> 0,
     mem |-> NoMem, len |-> 0, hash |-> 0, value |-> <<>>]

\* a constructor that panicked ("layout computation overflow", unwrap on None)
Panicked(kind, hashed, elem, input) ==
    [NoCarrier EXCEPT !.kind = kind, !.hashed = hashed, !.elem = elem,
                      !.input = input, !.ok = FALSE]

\* impl<T: Hash> From<T> for WithHash<T>, for T = String or Vec<u8>
WithHash_from(T, value) ==
    [NoCarrier EXCEPT !.kind = "WithHash<T>", !.hashed = T, !.input = value,
                      !.hash = hash(seed, T, U8.size, value), !.value = value,
                      !.len = Len(value)]

\* fn as_wide_ptr(data: *mut u8, slice_len: usize) -> *mut Self:
\* the length metadata of the wide pointer
as_wide_ptr(slice_len) == slice_len

\* fn new_raw_boxed_slice(input_slice: &[T]) -> *mut Self
new_raw_boxed_slice(elem, input_slice) ==
    LET sl == slice_layout(elem, Len(input_slice))
    IN  IF ~sl.ok THEN Panicked("Box<WithHash<[T]>>", "slice", elem, input_slice)
        ELSE [NoCarrier EXCEPT
                 !.kind = "Box<WithHash<[T]>>", !.hashed = "slice", !.elem = elem,
                 !.input = input_slice, !.layout = sl.layout,
                 !.value_offset = sl.offset,
                 !.mem = initialize(alloc(sl.layout), 0, sl.offset, elem, input_slice),
                 !.len = as_wide_ptr(Len(input_slice))]

\* impl<T: Copy + Hash> From<&[T]> for Box<WithHash<[T]>>
Box_from_slice(elem, value) == new_raw_boxed_slice(elem, value)

\* impl From<&str> for Box<WithHash<str>>: the bytes of the text go through
\* new_raw_boxed_slice, the pointer is then cast to *mut WithHash<str>
Box_from_str(value) ==
    [new_raw_boxed_slice(U8, value) EXCEPT !.kind = "Box<WithHash<str>>", !.hashed = "str"]

\* fn new_dynamically_sized_rcbox(value_layout: Layout) -> (NonNull<u8>, usize)
new_dynamically_sized_rcbox(value_layout) ==
    LET r == rcbox_layout_and_value_offset(value_layout)
    IN  IF ~r.ok THEN [ok |-> FALSE, layout |-> LayoutErr, mem |-> NoMem, offset |-> 0]
        ELSE [ok |-> TRUE, layout |-> r.layout,
              mem |-> Write(alloc(r.layout), 0, UsizeSize, UsizeSize, 1),
              offset |-> r.offset]

\* fn new_withhash_slice(input_slice: &[T]) -> NonNull<Self>
new_withhash_slice(elem, input_slice) ==
    LET sl == slice_layout_and_value_offset(elem, input_slice)
        b == new_dynamically_sized_rcbox(sl.layout)
    IN  IF ~sl.ok \/ ~b.ok THEN Panicked("Rc<WithHash<[T]>>", "slice", elem, input_slice)
        ELSE [NoCarrier EXCEPT
                 !.kind = "Rc<WithHash<[T]>>", !.hashed = "slice", !.elem = elem,
                 !.input = input_slice, !.layout = b.layout,
                 !.value_offset = sl.offset, !.rcvalue_offset = b.offset,
                 !.mem = initialize(b.mem, b.offset, sl.offset, elem, input_slice),
                 !.len = Len(input_slice)]

\* impl<T: Copy + Hash> From<&[T]> for Rc<WithHash<[T]>>
Rc_from_slice(elem, input_slice) == new_withhash_slice(elem, input_slice)

---------------------------------------------------------------------------
(* Access through the handle: the compiler finds the fields at their        *)
(* #[repr(C)] offsets, with the element count taken from the wide pointer   *)

IsRc(c) == c.kind = "Rc<WithHash<[T]>>"

IsBoxed(c) == c.kind \in {"Box<WithHash<[T]>>", "Box<WithHash<str>>"}

\* the offset of the WithHash inside the block
WithHashBase(c) == IF IsRc(c) THEN RcBox_value_offset(c.elem) ELSE 0

\* self_.hash
stored_hash(c) ==
    IF c.kind = "WithHash<T>" THEN c.hash
    ELSE Read(c.mem, WithHashBase(c), U64Size)

\* &self_.value
stored_value(c) ==
    IF c.kind = "WithHash<T>" THEN c.value
    ELSE [i \in 1..c.len |->
             Read(c.mem,
                  WithHashBase(c) + WithHash_value_offset(c.elem) + (i - 1) * c.elem.size,
                  c.elem.size)]

\* self.inner().refcount.get()
stored_refcount(c) == Read(c.mem, 0, UsizeSize)

\* Layout::for_value(self.ptr.as_ref()) in Rc's drop, and the layout Box's drop
\* hands to dealloc
Layout_for_value(c) ==
    IF IsRc(c)
    THEN [size |-> RcBox_size_of_val(c.elem, c.len), align |-> RcBox_align(c.elem)]
    ELSE [size |-> WithHash_size_of_val(c.elem, c.len), align |-> WithHash_align(c.elem)]

\* the wrappers PreHash is implemented for
Wrappers == {"WithHash", "&WithHash", "&mut WithHash", "Box", "Rc", "Arc"}

\* fn precomputed_hash(self_: &Self) -> u64, the same body in all six impls
precomputed_hash(wrapper, c) == stored_hash(c)

\* fn hashed_value(self_: &Self) -> &Self::Hashed
hashed_value(wrapper, c) == stored_value(c)

---------------------------------------------------------------------------
(* rc.rs: the sized constructor, clone, drop, deref *)

U64 == [size |-> U64Size, align |-> U64Size]

\* pub fn new(value: T) -> Self, for T = u64: Box::new(RcBox { refcount:
\* Cell::new(1), value }) lays the #[repr(C)] RcBox out, refcount first
Rc_new(value) ==
    LET layout == [size |-> UsizeSize + U64.size, align |-> UsizeSize]
        m1 == Write(alloc(layout), 0, UsizeSize, UsizeSize, 1)
    IN  [NoCarrier EXCEPT
            !.kind = "Rc<T>", !.hashed = "u64", !.elem = U64, !.input = <<value>>,
            !.layout = layout, !.rcvalue_offset = UsizeSize,
            !.mem = Write(m1, UsizeSize, U64.size, U64.align, value), !.len = 1]

NoRc ==
    [op |-> "none", handles |-> 0, peak |-> 0, allocated |-> FALSE, dropRuns |-> 0,
     deallocs |-> 0, uaf |-> FALSE, panicked |-> FALSE]

\* the block as the constructor leaves it: one handle, allocated
NewRc(c) ==
    IF c.ok THEN [NoRc EXCEPT !.op = "new", !.handles = 1, !.peak = 1, !.allocated = TRUE]
    ELSE [NoRc EXCEPT !.op = "new", !.panicked = TRUE]

\* usize::wrapping_add in place of checked_add
wrapping_add(a, b) == Some((a + b) % (usize_MAX + 1))

\* usize::checked_add
checked_add(a, b) == IF a + b > usize_MAX THEN None ELSE Some(a + b)

\* let new_count = self.inner().refcount.get().checked_add(1).unwrap();
clone_new_count(count) == checked_add(count, 1)

\* a drop that reads the count and forgets the decrement
drop_new_count_same(count) == count

\* let new_count = self.inner().refcount.get() - 1;
drop_new_count(count) == count - 1

\* a drop that frees when the handle it leaves behind is the last one
drop_is_last_early(new_count) == new_count <= 1

\* if new_count != 0 { set } else { drop_in_place; dealloc }
drop_is_last(new_count) == ~(new_count # 0)

\* self.inner().refcount.set(new_count)
refcount_set(c, new_count) ==
    [c EXCEPT !.mem = Write(@, 0, UsizeSize, UsizeSize, new_count)]

\* std::alloc::dealloc(ptr, layout): the bytes are no longer the program's
dealloc(c) ==
    [c EXCEPT !.mem = [@ EXCEPT !.cells = [i \in 1..Len(@) |-> Uninit]]]

\* impl<T: ?Sized> Clone for Rc<T>
Clone ==
    /\ rc.handles >= 1
    /\ LET new_count == clone_new_count(stored_refcount(carrier))
       IN  IF new_count.some
           THEN /\ carrier' = refcount_set(carrier, new_count.v)
                /\ rc' = [rc EXCEPT !.op = "clone", !.handles = @ + 1,
                                    !.peak = Max(@, rc.handles + 1),
                                    !.uaf = @ \/ ~rc.allocated, !.panicked = FALSE]
           ELSE /\ carrier' = carrier
                /\ rc' = [rc EXCEPT !.op = "clone", !.uaf = @ \/ ~rc.allocated,
                                    !.panicked = TRUE]
    /\ UNCHANGED <<seed, lastHash, map, ret, bench>>

\* impl<T: ?Sized> Drop for Rc<T>
Drop ==
    /\ rc.handles >= 1
    /\ LET new_count == drop_new_count(stored_refcount(carrier))
       IN  IF ~drop_is_last(new_count)
           THEN /\ carrier' = refcount_set(carrier, new_count)
                /\ rc' = [rc EXCEPT !.op = "drop", !.handles = @ - 1,
                                    !.uaf = @ \/ ~rc.allocated, !.panicked = FALSE]
           ELSE /\ carrier' = dealloc(carrier)
                /\ rc' = [rc EXCEPT !.op = "drop", !.handles = @ - 1,
                                    !.uaf = @ \/ ~rc.allocated,
                                    !.dropRuns = @ + 1, !.deallocs = @ + 1,
                                    !.allocated = FALSE, !.panicked = FALSE]
    /\ UNCHANGED <<seed, lastHash, map, ret, bench>>

\* impl<T: ?Sized> Deref for Rc<T> and AsRef<T>: &self.inner().value
Deref ==
    /\ rc.handles >= 1
    /\ rc' = [rc EXCEPT !.op = "deref", !.uaf = @ \/ ~rc.allocated, !.panicked = FALSE]
    /\ UNCHANGED <<seed, carrier, lastHash, map, ret, bench>>

---------------------------------------------------------------------------
(* Inputs *)

Seeds == 0..MaxSeed

\* all sequences over S of length at most n
SeqsUpTo(S, n) == UNION {[1..k -> S] : k \in 0..n}

\* the element types the constructors are run with: (), u8, u16, u32, u64, u128
Unit == [size |-> 0, align |-> 1]

IntTypes == {[size |-> n, align |-> n] : n \in {1, 2, 4, 8, 16}}

\* the sequence of the documented example, Rc::from(&[1u8, 2, 3][..])
ExampleInput == <<1, 2, 3>>

Inputs(elem) ==
    IF elem = Unit THEN SeqsUpTo({0}, MaxLen)
    ELSE IF elem = U8 THEN SeqsUpTo(0..MaxElem, MaxLen) \cup {ExampleInput}
    ELSE SeqsUpTo(0..MaxElem, MaxLen)

\* texts: ASCII letters from 'a'
Texts == SeqsUpTo({97 + e : e \in 0..MaxElem}, MaxLen)

\* the sized hashed types WithHash::from is run with, and their values
SizedTypes == {"String", "Vec"}

SizedValues(T) == IF T = "String" THEN Texts ELSE SeqsUpTo(0..MaxElem, MaxLen)

\* element types of the layout arithmetic: every alignment 1..16 with the sizes
\* 0, align, 2 align, 3 align (a size is a multiple of the alignment)
LayoutTypes ==
    {[size |-> k * a, align |-> a] : k \in 0..3, a \in {1, 2, 4, 8, 16}}

NoHash == [called |-> FALSE, wrapper |-> "none", hash |-> 0]

NoMap == [keyTy |-> "none", slots |-> <<>>, hashCalls |-> 0, history |-> <<>>]

NoRet == [op |-> "none"]

NoBench == [pc |-> "none", i |-> 0]

---------------------------------------------------------------------------
(* SpecCarrier: one constructor call, then any number of calls of           *)
(* precomputed_hash on the carrier it built                                 *)

InitCarrier ==
    /\ seed \in Seeds
    /\ carrier = NoCarrier
    /\ lastHash = NoHash
    /\ rc = NoRc
    /\ map = NoMap
    /\ ret = NoRet
    /\ bench = NoBench

ConstructFromValue ==
    /\ carrier.kind = "none"
    /\ \E T \in SizedTypes : \E v \in SizedValues(T) : carrier' = WithHash_from(T, v)
    /\ lastHash' = NoHash
    /\ rc' = NoRc
    /\ UNCHANGED <<seed, map, ret, bench>>

ConstructBoxFromSlice ==
    /\ carrier.kind = "none"
    /\ \E elem \in IntTypes \cup {Unit} : \E s \in Inputs(elem) :
          carrier' = Box_from_slice(elem, s)
    /\ lastHash' = NoHash
    /\ rc' = NoRc
    /\ UNCHANGED <<seed, map, ret, bench>>

ConstructBoxFromStr ==
    /\ carrier.kind = "none"
    /\ \E text \in Texts : carrier' = Box_from_str(text)
    /\ lastHash' = NoHash
    /\ rc' = NoRc
    /\ UNCHANGED <<seed, map, ret, bench>>

ConstructRcFromSlice ==
    /\ carrier.kind = "none"
    /\ \E elem \in IntTypes \cup {Unit} : \E s \in Inputs(elem) :
          carrier' = Rc_from_slice(elem, s)
    /\ rc' = NewRc(carrier')
    /\ lastHash' = NoHash
    /\ UNCHANGED <<seed, map, ret, bench>>

ConstructRcNew ==
    /\ carrier.kind = "none"
    /\ \E v \in 0..MaxElem : carrier' = Rc_new(v)
    /\ rc' = NewRc(carrier')
    /\ lastHash' = NoHash
    /\ UNCHANGED <<seed, map, ret, bench>>

\* the layout arithmetic alone, for element types and lengths the constructors
\* above are not run with; the block is not allocated
layout_only(handle, elem, len) ==
    LET sl == slice_layout(elem, len)
        r == rcbox_layout_and_value_offset(sl.layout)
    IN  IF handle = "Box"
        THEN IF ~sl.ok
             THEN Panicked("Box<WithHash<[T]>>", "layout", elem, <<>>)
             ELSE [NoCarrier EXCEPT
                      !.kind = "Box<WithHash<[T]>>", !.hashed = "layout", !.elem = elem,
                      !.layout = sl.layout, !.value_offset = sl.offset, !.len = len]
        ELSE IF ~sl.ok \/ ~r.ok
             THEN Panicked("Rc<WithHash<[T]>>", "layout", elem, <<>>)
             ELSE [NoCarrier EXCEPT
                      !.kind = "Rc<WithHash<[T]>>", !.hashed = "layout", !.elem = elem,
                      !.layout = r.layout, !.value_offset = sl.offset,
                      !.rcvalue_offset = r.offset, !.len = len]

ComputeLayout ==
    /\ carrier.kind = "none"
    /\ \E handle \in {"Box", "Rc"} : \E elem \in LayoutTypes : \E len \in 0..MaxLayoutLen :
          carrier' = layout_only(handle, elem, len)
    /\ lastHash' = NoHash
    /\ rc' = NoRc
    /\ UNCHANGED <<seed, map, ret, bench>>

\* whether the handle has a block behind it that the constructor initialised
Built(c) == c.kind # "none" /\ c.ok /\ c.hashed # "layout"

\* a carrier is reached through the wrappers its type allows: the struct
\* itself only when sized, a Box only when boxed
WrappersOf(c) ==
    IF c.kind = "WithHash<T>" THEN Wrappers
    ELSE IF IsBoxed(c) THEN Wrappers \ {"WithHash"}
    ELSE {"&WithHash"}

CallPrecomputedHash ==
    /\ Built(carrier)
    /\ carrier.kind # "Rc<T>"
    /\ \E w \in WrappersOf(carrier) :
          lastHash' = [called |-> TRUE, wrapper |-> w, hash |-> precomputed_hash(w, carrier)]
    /\ UNCHANGED <<seed, carrier, rc, map, ret, bench>>

NextCarrier ==
    \/ ConstructFromValue
    \/ ConstructBoxFromSlice
    \/ ConstructBoxFromStr
    \/ ConstructRcFromSlice
    \/ ConstructRcNew
    \/ ComputeLayout
    \/ CallPrecomputedHash

SpecCarrier == InitCarrier /\ [][NextCarrier]_vars

---------------------------------------------------------------------------
(* SpecRc: one block, built once, then any sequence of clone, drop, deref   *)

InitRc == InitCarrier

NextRc ==
    \/ ConstructRcNew
    \/ ConstructRcFromSlice
    \/ Clone
    \/ Drop
    \/ Deref

SpecRc == InitRc /\ [][NextRc]_vars

---------------------------------------------------------------------------
(* map.rs: PreHashMap over the table engine (hashbrown's raw entry API).    *)
(* The engine is an open-addressing table: a slot is empty or holds a tag   *)
(* taken from the hash it was stored under, the key and the value.  It      *)
(* never deletes, and it grows when no slot may be filled any more.         *)

\* a key as the table holds it: what PreHash exposes of the carrier moved in
StoredKey(c) ==
    [hash |-> precomputed_hash("WithHash", c), value |-> hashed_value("WithHash", c),
     hashed |-> c.hashed]

EmptySlot == [full |-> FALSE]

FullSlot(tag, key, value) == [full |-> TRUE, tag |-> tag, key |-> key, value |-> value]

\* the start of the probe sequence: the hash masked to the bucket count
h1(h, buckets) == h % buckets

\* the tag kept beside the slot: the top 7 bits of the hash
h2(h) == h \div (2 ^ Max(HashBits - 7, 0))

\* Equivalent::equivalent for Q = K::Hashed or K::Hashed: Borrow<Q>: equality
\* of the borrowed forms (String with str, Vec<u8> with [u8])
equivalent(a, b) == a = b

\* a match closure that trusts the hash and skips the comparison of the values
is_match_by_hash(key, candidate) == precomputed_hash("&WithHash", key) = candidate.hash

\* |candidate| PreHash::hashed_value(key).equivalent(PreHash::hashed_value(candidate))
is_match(key, candidate) == equivalent(hashed_value("&WithHash", key), candidate.value)

\* the probe sequence of a hash visits the slots in cyclic order from h1;
\* the number of steps it takes from `start` to slot i
ProbeDistance(slots, start, i) == (i - 1 - start + Len(slots)) % Len(slots)

\* the slot of S the probe sequence from `start` visits first
FirstProbed(slots, start, S) ==
    CHOOSE i \in S :
        \A j \in S : ProbeDistance(slots, start, i) <= ProbeDistance(slots, start, j)

EmptySlots(slots) == {i \in 1..Len(slots) : ~slots[i].full}

\* the first empty slot of the probe sequence of `hash`
find_insert_slot(slots, h) ==
    FirstProbed(slots, h1(h, Len(slots)), EmptySlots(slots))

\* RawEntryBuilder::from_hash(hash, is_match): walk the probe sequence of
\* `hash` to the first empty slot, return the index of the first slot with
\* the tag of `hash` whose key matches, 0 for none
from_hash(slots, h, key) ==
    IF Len(slots) = 0 THEN 0
    ELSE LET start == h1(h, Len(slots))
             stop == ProbeDistance(slots, start, find_insert_slot(slots, h))
             hits == {i \in 1..Len(slots) :
                         /\ slots[i].full
                         /\ ProbeDistance(slots, start, i) < stop
                         /\ slots[i].tag = h2(h)
                         /\ is_match(key, slots[i].key)}
         IN  IF hits = {} THEN 0 ELSE FirstProbed(slots, start, hits)

Items(slots) == Cardinality({i \in 1..Len(slots) : slots[i].full})

\* the number of entries a table of `buckets` slots takes before it grows
bucket_mask_to_capacity(buckets) ==
    IF buckets = 0 THEN 0
    ELSE IF buckets <= 8 THEN buckets - 1
    ELSE (buckets \div 8) * 7

RECURSIVE next_power_of_two(_)
next_power_of_two(n) == IF n <= 1 THEN 1 ELSE 2 * next_power_of_two((n + 1) \div 2)

capacity_to_buckets(cap) ==
    IF cap < 4 THEN 4
    ELSE IF cap < 8 THEN 8
    ELSE next_power_of_two((cap * 8) \div 7)

\* a hasher closure that goes back to the hash function
hasher_rehashing(key) == [h |-> hash(seed, key.hashed, U8.size, key.value), calls |-> 1]

\* the hasher closure PreHashMap::insert hands to insert_with_hasher:
\* PreHash::precomputed_hash.  `calls` counts the calls of the hash function
\* that one use of the closure makes
insert_hasher(key) == [h |-> key.hash, calls |-> 0]

\* growth: every entry of old[lo..hi] moves, in order, to the slot of the new
\* table that the hasher closure gives for its key.  The range is split in
\* two, and the first half is moved before the second starts, to keep the
\* evaluation shallow.
RECURSIVE Rebucket(_, _, _, _)
Rebucket(old, lo, hi, new) ==
    IF lo > hi THEN new
    ELSE IF lo = hi
    THEN IF ~old[lo].full THEN new
         ELSE LET r == insert_hasher(old[lo].key)
                  at == find_insert_slot(new.slots, r.h)
              IN  [slots |-> [new.slots EXCEPT
                                 ![at] = FullSlot(h2(r.h), old[lo].key, old[lo].value)],
                   calls |-> new.calls + r.calls]
    ELSE LET mid == (lo + hi) \div 2
             half == Rebucket(old, lo, mid, new)
         IN  IF half.calls >= 0 THEN Rebucket(old, mid + 1, hi, half) ELSE half

reserve_rehash(slots) ==
    LET full_cap == bucket_mask_to_capacity(Len(slots))
        buckets == capacity_to_buckets(Max(Items(slots) + 1, full_cap + 1))
    IN  Rebucket(slots, 1, Len(slots),
                 [slots |-> [i \in 1..buckets |-> EmptySlot], calls |-> 0])

\* RawVacantEntryMut::insert_with_hasher(hash, key, value, hasher)
insert_with_hasher(slots, h, key, value) ==
    LET grown == IF Items(slots) = bucket_mask_to_capacity(Len(slots))
                 THEN reserve_rehash(slots)
                 ELSE [slots |-> slots, calls |-> 0]
        at == find_insert_slot(grown.slots, h)
    IN  [slots |-> [grown.slots EXCEPT ![at] = FullSlot(h2(h), key, value)],
         calls |-> grown.calls]

\* the hashed values the maps of the model are keyed and queried with
KeyValues == {<<>>, <<97>>, <<98>>, <<97, 98>>}

\* the values stored
Values == {1, 2}

\* the key types K of the model, by hashed type: WithHash<String>,
\* WithHash<Vec<u8>>, Box<WithHash<str>>
KeyTypes == {"String", "Vec", "str"}

\* the carrier of hashed type ty over the bytes v
MakeCarrier(ty, v) ==
    IF ty \in SizedTypes THEN WithHash_from(ty, v)
    ELSE IF ty = "str" THEN Box_from_str(v)
    ELSE Box_from_slice(U8, v)

\* the query types Q with Q::Hashed: Equivalent<K::Hashed>, that is
\* K::Hashed: Borrow<Q::Hashed>
QueryTypes(K) ==
    IF K = "String" THEN {"String", "str"}
    ELSE IF K = "Vec" THEN {"Vec", "slice"}
    ELSE {K}

\* pub fn new() -> Self
PreHashMap_new(K) ==
    [keyTy |-> K, slots |-> <<>>, hashCalls |-> 0,
     history |-> [v \in KeyValues |-> None]]

\* fn raw_entry<Q>(&self, key: &Q) -> Option<(&K, &V)>
raw_entry(m, key) ==
    LET h == precomputed_hash("&WithHash", key)
    IN  from_hash(m.slots, h, key)

\* fn raw_entry_mut<Q>(&mut self, key: &Q) -> RawEntryMut<'_, K, V, NotAHasher>
raw_entry_mut(m, key) ==
    LET h == precomputed_hash("&WithHash", key)
    IN  from_hash(m.slots, h, key)

\* pub fn get<Q>(&self, key: &Q) -> Option<&V>
get(m, key) ==
    LET at == raw_entry(m, key)
    IN  IF at = 0 THEN None ELSE Some(m.slots[at].value)

\* pub fn insert(&mut self, key: K, value: V) -> Option<V>
insert(m, key, value) ==
    LET at == raw_entry_mut(m, key)
    IN  IF at # 0
        THEN [map |-> [m EXCEPT !.slots[at].value = value],
              ret |-> Some(m.slots[at].value)]
        ELSE LET h == precomputed_hash("&WithHash", key)
                 r == insert_with_hasher(m.slots, h, StoredKey(key), value)
             IN  [map |-> [m EXCEPT !.slots = r.slots, !.hashCalls = @ + r.calls],
                  ret |-> None]

---------------------------------------------------------------------------
(* SpecMap: one map of some key type, then any sequence of insert and get   *)

InitMap ==
    /\ seed \in Seeds
    /\ carrier = NoCarrier
    /\ lastHash = NoHash
    /\ rc = NoRc
    /\ \E K \in KeyTypes : map = PreHashMap_new(K)
    /\ ret = NoRet
    /\ bench = NoBench

\* map.insert(key, value) with a key built from v by the constructor of K
Insert ==
    /\ map.keyTy # "none"
    /\ \E v \in KeyValues : \E value \in Values :
          LET r == insert(map, MakeCarrier(map.keyTy, v), value)
          IN  /\ map' = [r.map EXCEPT !.history[v] = Some(value)]
              /\ ret' = [op |-> "insert", key |-> v, ty |-> map.keyTy,
                         value |-> value, got |-> r.ret]
    /\ UNCHANGED <<seed, carrier, lastHash, rc, bench>>

\* map.get(&query) with a query built from v by the constructor of Q
Get ==
    /\ map.keyTy # "none"
    /\ \E Q \in QueryTypes(map.keyTy) : \E v \in KeyValues :
          ret' = [op |-> "get", key |-> v, ty |-> Q, value |-> 0,
                  got |-> get(map, MakeCarrier(Q, v))]
    /\ UNCHANGED <<seed, carrier, lastHash, rc, map, bench>>

NextMap ==
    \/ Insert
    \/ Get

SpecMap == InitMap /\ [][NextMap]_vars

---------------------------------------------------------------------------
(* SpecBench: benches/hashmap.rs, bench_prehash_get, followed by the        *)
(* lookup of a text that was never inserted                                 *)

\* the number of keys the benchmark inserts
BenchN == 100

\* the ASCII bytes of the decimal digits of i
RECURSIVE Decimal(_)
Decimal(i) == IF i < 10 THEN <<48 + i>> ELSE Decimal(i \div 10) \o <<48 + (i % 10)>>

\* format!("value # {i}")
FormatValue(i) == <<118, 97, 108, 117, 101, 32, 35, 32>> \o Decimal(i)

\* "value # 12"
Value12 == <<118, 97, 108, 117, 101, 32, 35, 32, 49, 50>>

\* "missing"
Missing == <<109, 105, 115, 115, 105, 110, 103>>

InitBench ==
    /\ seed \in Seeds
    /\ carrier = NoCarrier
    /\ lastHash = NoHash
    /\ rc = NoRc
    /\ map = [PreHashMap_new("String") EXCEPT !.history = <<>>]
    /\ ret = NoRet
    /\ bench = [pc |-> "fill", i |-> 0]

\* for i in 0..100 { map.insert(WithHash::from(format!("value # {i}")), i); }
BenchInsert ==
    /\ bench.pc = "fill"
    /\ bench.i < BenchN
    /\ LET r == insert(map, WithHash_from("String", FormatValue(bench.i)), bench.i)
       IN  /\ map' = r.map
           /\ ret' = [op |-> "insert", key |-> FormatValue(bench.i), ty |-> "String",
                      value |-> bench.i, got |-> r.ret]
    /\ bench' = [bench EXCEPT !.i = @ + 1]
    /\ UNCHANGED <<seed, carrier, lastHash, rc>>

\* let key: Box<WithHash<str>> = "value # 12".into(); map.get(&key)
BenchGet ==
    /\ bench.pc = "fill"
    /\ bench.i = BenchN
    /\ ret' = [op |-> "get", key |-> Value12, ty |-> "str", value |-> 0,
               got |-> get(map, Box_from_str(Value12))]
    /\ bench' = [bench EXCEPT !.pc = "looked up"]
    /\ UNCHANGED <<seed, carrier, lastHash, rc, map>>

\* the lookup of "missing", built like the key above
BenchGetMissing ==
    /\ bench.pc = "looked up"
    /\ ret' = [op |-> "get", key |-> Missing, ty |-> "str", value |-> 0,
               got |-> get(map, Box_from_str(Missing))]
    /\ bench' = [bench EXCEPT !.pc = "done"]
    /\ UNCHANGED <<seed, carrier, lastHash, rc, map>>

NextBench ==
    \/ BenchInsert
    \/ BenchGet
    \/ BenchGetMissing

SpecBench == InitBench /\ [][NextBench]_vars

---------------------------------------------------------------------------
(* Properties of the carriers (SpecCarrier) *)

FromCarrierConstructor(c) ==
    c.kind \in {"WithHash<T>", "Box<WithHash<[T]>>", "Box<WithHash<str>>"}

\* C1: for every carrier built by WithHash::from, Box<WithHash<[T]>>::from or
\* Box<WithHash<str>>::from, the stored hash is the hash function applied to the
\* carrier's own hashed value, at its own type (T, [T] or str), and every call
\* of precomputed_hash, through any wrapper, returns that number.
C1_StoredHashIsHashOfValue ==
    (Built(carrier) /\ FromCarrierConstructor(carrier)) =>
        /\ stored_hash(carrier)
              = hash(seed, carrier.hashed, carrier.elem.size, stored_value(carrier))
        /\ lastHash.called => lastHash.hash = stored_hash(carrier)

\* C1, apart from the text constructor: the same statement for the carriers of
\* WithHash::from and Box<WithHash<[T]>>::from, and, for every carrier, that
\* precomputed_hash returns the stored number
C1_ExceptText ==
    (Built(carrier) /\ FromCarrierConstructor(carrier)) =>
        /\ carrier.kind # "Box<WithHash<str>>" =>
              stored_hash(carrier)
                 = hash(seed, carrier.hashed, carrier.elem.size, stored_value(carrier))
        /\ carrier.kind = "Box<WithHash<str>>" =>
              stored_hash(carrier) = hash(seed, "slice", U8.size, stored_value(carrier))
        /\ lastHash.called => lastHash.hash = stored_hash(carrier)

FromSliceConstructor(c) == c.kind \in {"Box<WithHash<[T]>>", "Rc<WithHash<[T]>>"}

\* C9: the handle built from a sequence s by Rc<WithHash<[T]>>::from or
\* Box<WithHash<[T]>>::from has length metadata len(s), payload elements equal
\* to s in order and precomputed hash equal to hash(s), every write of the
\* constructor lands inside the block at an aligned address, and an Rc so
\* built starts with refcount 1.
C9_SliceConstruction ==
    (Built(carrier) /\ FromSliceConstructor(carrier)) =>
        /\ carrier.len = Len(carrier.input)
        /\ stored_value(carrier) = carrier.input
        /\ stored_hash(carrier) = hash(seed, "slice", carrier.elem.size, carrier.input)
        /\ lastHash.called => lastHash.hash = hash(seed, "slice", carrier.elem.size, carrier.input)
        /\ ~carrier.mem.oob
        /\ ~carrier.mem.misaligned
        /\ IsRc(carrier) => (stored_refcount(carrier) = 1 /\ rc.handles = 1)

\* the example: an Rc from the bytes [1,2,3], read back through the handle
C9_Witness ==
    /\ Built(carrier)
    /\ IsRc(carrier)
    /\ carrier.elem = U8
    /\ carrier.input = ExampleInput
    /\ carrier.len = 3
    /\ stored_value(carrier) = <<1, 2, 3>>
    /\ lastHash.called

\* the offsets the constructor wrote the fields at
HashOffset(c) == c.rcvalue_offset

PayloadOffset(c) == c.rcvalue_offset + c.value_offset

\* C10: whenever the layout computation does not overflow, the layout handed
\* to the allocator has non-zero size; the refcount (Rc only), the hash and the
\* n payload elements lie at aligned, pairwise disjoint offsets inside it; and
\* its size, its alignment and the field offsets are those of the #[repr(C)]
\* type with length metadata n, which every access and the deallocation use.
C10_LayoutMatches ==
    (carrier.kind \in {"Box<WithHash<[T]>>", "Box<WithHash<str>>", "Rc<WithHash<[T]>>"}
        /\ carrier.ok) =>
        /\ carrier.layout.size > 0
        /\ carrier.layout = Layout_for_value(carrier)
        /\ HashOffset(carrier) = WithHashBase(carrier)
        /\ PayloadOffset(carrier) = WithHashBase(carrier) + WithHash_value_offset(carrier.elem)
        /\ HashOffset(carrier) % U64Size = 0
        /\ PayloadOffset(carrier) % carrier.elem.align = 0
        /\ carrier.layout.align % U64Size = 0
        /\ carrier.layout.align % carrier.elem.align = 0
        /\ IsRc(carrier) => UsizeSize <= HashOffset(carrier)
        /\ HashOffset(carrier) + U64Size <= PayloadOffset(carrier)
        /\ PayloadOffset(carrier) + carrier.len * carrier.elem.size <= carrier.layout.size

\* an Rc block over elements aligned to 16 bytes, where padding is needed
\* both before the hash and before the payload, and after an odd payload
C10_Witness ==
    /\ carrier.ok
    /\ IsRc(carrier)
    /\ carrier.elem = [size |-> 16, align |-> 16]
    /\ carrier.len = 2
    /\ HashOffset(carrier) = 16
    /\ PayloadOffset(carrier) = 32
    /\ carrier.layout = [size |-> 64, align |-> 16]

\* the layout computation does overflow for some of the inputs
LayoutOverflowReached == ~carrier.ok

---------------------------------------------------------------------------
(* Properties of the Rc block (SpecRc) *)

\* C6: whatever the interleaving of clones and drops, the payload destructor
\* and the deallocation each run at most once, not while a handle is still
\* live, exactly once when every handle has been dropped, and the block is
\* never read or written after the deallocation.
C6_FreedOnceAtLastDrop ==
    /\ rc.dropRuns <= 1
    /\ rc.deallocs <= 1
    /\ ~rc.uaf
    /\ rc.handles > 0 => (rc.deallocs = 0 /\ rc.dropRuns = 0 /\ rc.allocated)
    /\ (rc.op # "none" /\ ~rc.panicked /\ rc.handles = 0) =>
          (rc.deallocs = 1 /\ rc.dropRuns = 1 /\ ~rc.allocated)

\* two clones and three drops at least: every handle is gone, the block freed
C6_Witness ==
    /\ rc.op = "drop"
    /\ rc.peak >= 3
    /\ rc.handles = 0
    /\ rc.deallocs = 1
    /\ rc.dropRuns = 1

C7_Inv ==
    rc.handles > 0 =>
        /\ rc.allocated
        /\ stored_refcount(carrier) >= 1
        /\ stored_refcount(carrier) = rc.handles

C7_FreeStep ==
    (rc.allocated /\ ~rc'.allocated)
        <=> (rc'.op = "drop" /\ rc'.handles = rc.handles - 1 /\ rc.allocated
             /\ stored_refcount(carrier) = 1)

\* C7: while a handle exists the block is allocated and its refcount is >= 1
\* and equals the number of live handles; the block is deallocated exactly at
\* the drop that finds the count at 1.
C7_CountIsHandles == [](C7_Inv) /\ [][C7_FreeStep]_vars

\* three live handles on a block built from a sequence
C7_Witness ==
    /\ IsRc(carrier)
    /\ rc.handles = 3
    /\ stored_refcount(carrier) = 3
    /\ rc.allocated

C8_CloneStep ==
    rc'.op = "clone" =>
        IF stored_refcount(carrier) = usize_MAX
        THEN /\ rc'.panicked
             /\ stored_refcount(carrier') = stored_refcount(carrier)
             /\ rc'.handles = rc.handles
        ELSE /\ ~rc'.panicked
             /\ stored_refcount(carrier') = stored_refcount(carrier) + 1
             /\ rc'.handles = rc.handles + 1
             /\ carrier'.layout = carrier.layout
             /\ stored_value(carrier') = stored_value(carrier)

\* C8: a clone at the maximum count panics, leaves the stored count as it was
\* and returns no handle; at every smaller count it adds exactly 1 and returns
\* a handle to the same block.
C8_CloneOverflowIsFatal == [][C8_CloneStep]_vars

\* the clone that found the count at the maximum
C8_Witness ==
    /\ rc.op = "clone"
    /\ rc.panicked
    /\ stored_refcount(carrier) = usize_MAX
    /\ rc.handles = usize_MAX

---------------------------------------------------------------------------
(* Properties of the map (SpecMap, SpecBench) *)

FullSlots(slots) == {i \in 1..Len(slots) : slots[i].full}

\* C2: get(q) returns the value most recently inserted under a key whose
\* hashed value equals that of q, whichever constructor built q, and None
\* when no such key was inserted, stored keys of equal hash notwithstanding.
C2_GetReturnsLatest ==
    ret.op = "get" => ret.got = map.history[ret.key]

\* C2, apart from a text query on a map keyed by owned strings: the same
\* statement for every other pair of key and query type; and for every pair, a
\* lookup never returns the value of another key
C2_ExceptTextQuery ==
    ret.op = "get" =>
        /\ ~(map.keyTy = "String" /\ ret.ty = "str") => ret.got = map.history[ret.key]
        /\ ret.got.some => ret.got = map.history[ret.key]

\* a lookup that found its key beside a stored key of the same hash
C2_CollisionReached ==
    /\ ret.op = "get"
    /\ ret.got.some
    /\ \E i, j \in FullSlots(map.slots) :
          /\ map.slots[i].key.value = ret.key
          /\ map.slots[j].key.value # ret.key
          /\ map.slots[j].key.hash = map.slots[i].key.hash

\* the slot holding the key of hashed value v, 0 for none
SlotOf(slots, v) ==
    IF \E i \in FullSlots(slots) : equivalent(slots[i].key.value, v)
    THEN CHOOSE i \in FullSlots(slots) : equivalent(slots[i].key.value, v)
    ELSE 0

C3_NoDuplicates ==
    \A i, j \in FullSlots(map.slots) :
        equivalent(map.slots[i].key.value, map.slots[j].key.value) => i = j

C3_InsertStep ==
    ret'.op = "insert" =>
        LET old == SlotOf(map.slots, ret'.key)
            new == SlotOf(map'.slots, ret'.key)
        IN  /\ new # 0
            /\ map'.slots[new].value = ret'.value
            /\ IF old # 0
               THEN /\ ret'.got = Some(map.slots[old].value)
                    /\ Items(map'.slots) = Items(map.slots)
               ELSE /\ ret'.got = None
                    /\ Items(map'.slots) = Items(map.slots) + 1
            /\ \A v \in KeyValues \ {ret'.key} :
                  LET o == SlotOf(map.slots, v)
                      n == SlotOf(map'.slots, v)
                  IN  (o = 0) = (n = 0) /\ (o # 0 => map'.slots[n].value = map.slots[o].value)

\* C3: an insert under a hashed value the map holds replaces that entry's
\* value, returns the previous one and leaves the number of entries alone;
\* otherwise it adds an entry and returns None; no other entry changes; and
\* the map never holds two entries of equal hashed value.
C3_InsertReplacesOrAdds == [](C3_NoDuplicates) /\ [][C3_InsertStep]_vars

\* a replacing insert, in a table that also holds another key of the same hash
C3_Witness ==
    /\ ret.op = "insert"
    /\ ret.got.some
    /\ ret.got.v # ret.value
    /\ \E i, j \in FullSlots(map.slots) :
          /\ map.slots[i].key.value = ret.key
          /\ map.slots[j].key.value # ret.key
          /\ map.slots[j].key.hash = map.slots[i].key.hash

\* entry i is stored under the hash h: it carries the tag of h, and the probe
\* sequence of h reaches it before any empty slot
StoredUnder(slots, i, h) ==
    /\ slots[i].tag = h2(h)
    /\ ProbeDistance(slots, h1(h, Len(slots)), i)
          < ProbeDistance(slots, h1(h, Len(slots)), find_insert_slot(slots, h))

\* C5: no map operation calls the hash function, growth included, and every
\* entry is stored under its key's precomputed hash: with the tag of that
\* number, on the probe sequence of that number.
C5_NeverHashes ==
    /\ map.hashCalls = 0
    /\ \A i \in FullSlots(map.slots) :
          StoredUnder(map.slots, i, map.slots[i].key.hash)

\* a table that has grown twice and holds a key whose precomputed hash is
\* not the hash function's result for its hashed value
C5_Witness ==
    /\ Len(map.slots) = 8
    /\ Items(map.slots) = 4
    /\ \E i \in FullSlots(map.slots) :
          map.slots[i].key.hash
             # hash(seed, map.slots[i].key.hashed, U8.size, map.slots[i].key.value)

\* C4: after the hundred inserts of the benchmark, the lookup with the carrier
\* built from the text "value # 12" returns Some(12), and the lookup with the
\* carrier built from the text "missing" returns None.
C4_BenchLookup ==
    /\ (bench.pc = "looked up" /\ ret.key = Value12) => ret.got = Some(12)
    /\ (bench.pc = "done" /\ ret.key = Missing) => ret.got = None

\* C4, the part that holds: the hundred keys are all in the map, each under a
\* slot of its own, and the text never inserted is not found
C4_MissingIsAbsent ==
    /\ bench.pc # "none" => Items(map.slots) = bench.i
    /\ (bench.pc = "done" /\ ret.key = Missing) => ret.got = None

====
